---- MODULE Spec2Model ----
(***************************************************************************)
(* A model of the concurrent reconnaissance core of subdomain-finder:      *)
(*   - Finder.Find / Finder.checkSubdomain (admission-gated fan-out and    *)
(*     the per-candidate probe pipeline),                                  *)
(*   - limiter.RateLimiter (lazy-refill token bucket),                     *)
(*   - limiter.Retryer and its BackoffStrategy implementations.            *)
(* Each part has its own specification over the shared variables; the      *)
(* variables of the other parts stay at their initial values.              *)
(***************************************************************************)
EXTENDS Integers, Sequences, FiniteSets, Bags, TLC

VARIABLES
    \* ---- Finder (capture.go:303-312) and the locals of one Find call
    threads,      \* f.config.Threads
    timeout,      \* f.config.Timeout
    retries,      \* f.config.Retries
    words,        \* f.wordlist.GetWords()
    resolver,     \* behaviour of f.dns.Resolve: candidate name -> IP, "" = error
    run,          \* number of the current Find call on this Finder
    mainPc,       \* position of the goroutine that called Find
    next,         \* index of the next word of the dispatch loop
    pc,           \* position of the goroutine dispatched for word i
    res,          \* local variable result of the goroutine for word i
    semaphore,    \* number of elements in the semaphore channel
    wg,           \* counter of the sync.WaitGroup
    resultsChan,  \* contents of the buffered channel resultsChan
    closed,       \* resultsChan has been closed
    closerPc,     \* position of the goroutine that runs wg.Wait(); close()
    results,      \* the slice Find appends to and returns
    pushed,       \* history: bag of the Results sent on resultsChan in this run
    sendOnClosed, \* history: a send on the closed resultsChan happened
    crashed,      \* the process was terminated by an unrecovered panic
    \* ---- one candidate's pipeline, stage by stage (capture.go:371-466)
    stage,        \* the stage checkSubdomain is about to run
    cand,         \* the candidate name given to checkSubdomain
    partial,      \* the result under construction
    failed,       \* history: the stages whose probe failed
    emitted,      \* what the caller pushed for this candidate
    \* ---- limiter.RateLimiter (logger.go:127-133) and its callers
    rate,         \* rl.rate
    interval,     \* rl.interval
    tokens,       \* rl.tokens
    lastTime,     \* rl.lastTime
    mu,           \* rl.mu: 0 when free, else the caller that holds it
    now,          \* the clock read by time.Now()
    wpc,          \* position of each caller of Wait
    wakeAt,       \* when the time.After timer of the blocked caller fires
    ctxDone,      \* the context of the caller's current call is done
    lastRet,      \* history: the most recent return of Wait
    grants,       \* history: times of the unblocked ok returns in the last interval
    warm,         \* history: the initial bucket has been used up
    rateChanged,  \* history: SetRate has been called
    rd,           \* the value of rl.tokens a caller inside Wait has loaded
    granted,      \* history: number of Waits that took a token
    \* ---- limiter.Retryer (logger.go:219-275) and one Execute call
    maxRetries,   \* r.config.MaxRetries
    backoff,      \* r.config.Backoff
    variant,      \* which method was called: Execute or ExecuteWithResult
    attempt,      \* the loop variable attempt
    rpc,          \* position of the caller inside the method
    lastErr,      \* local variable lastErr
    result,       \* local variable result of ExecuteWithResult
    rctxDone,     \* ctx of the call is done
    ret,          \* what the method returned
    calls,        \* history: what each invocation of fn returned
    sleeps,       \* history: the delay of each backoff sleep that was begun
    \* ---- a BackoffStrategy asked for its delays (logger.go:194-217)
    asked,        \* the attempt number GetDelay is asked for next
    delays        \* history: GetDelay(1), GetDelay(2), ... as returned

findVars == <<threads, timeout, retries, words, resolver, run, mainPc, next, pc, res, semaphore,
              wg, resultsChan, closed, closerPc, results, pushed, sendOnClosed,
              crashed>>
pipeVars == <<stage, cand, partial, failed, emitted>>
limVars == <<rate, interval, tokens, lastTime, mu, now, wpc, wakeAt, ctxDone, lastRet,
             grants, warm, rateChanged, rd, granted>>
retryVars == <<maxRetries, backoff, variant, attempt, rpc, lastErr, result, rctxDone,
               ret, calls, sleeps, asked, delays>>
vars == <<findVars, pipeVars, limVars, retryVars>>

(***************************************************************************)
(* Bounds of the model.                                                    *)
(***************************************************************************)
MaxWords == 2
MaxThreads == 2
MaxRuns == 2
MaxVulns == 2
MaxRate == 3
MaxInterval == 2
MaxTime == 4
MaxCallers == 2
MaxRetriesBound == 3
MaxBaseDelay == 3
MaxMaxDelay == 6
\* time.Duration is an int64; the model keeps its two's-complement wrap-around
\* at a width of DurationBits bits
DurationBits == 6
MaxAsked == 8
MaxFindings == 3

\* defaults of the scan command's --timeout and --retries flags
DefaultTimeout == 5
DefaultRetries == 3
\* the ranges a scan configuration is valid in
MinThreads == 1
ValidMaxThreads == 1000
MinTimeout == 1
MaxTimeout == 60
MinRetries == 0
ValidMaxRetries == 10

Domain == "example.com"
WordSet == {"www", "api"}
IPs == {"10.0.0.1"}

Min(a, b) == IF a < b THEN a ELSE b

RECURSIVE SeqsUpTo(_, _)
SeqsUpTo(S, n) ==
    IF n = 0 THEN {<<>>}
    ELSE LET shorter == SeqsUpTo(S, n - 1)
         IN  shorter \cup {Append(s, x) : s \in {t \in shorter : Len(t) = n - 1}, x \in S}

RECURSIVE BagOfSeq(_)
BagOfSeq(s) == IF s = <<>> THEN EmptyBag ELSE BagOfSeq(Tail(s)) (+) SetToBag({Head(s)})

(***************************************************************************)
(* types.Result and the probe pipeline as pure functions of the probes'    *)
(* outcomes.                                                               *)
(***************************************************************************)
NoSSL == [present |-> FALSE, Expired |-> FALSE, ExpiresSoon |-> FALSE,
          DaysUntilExpiry |-> 0, Vulnerabilities |-> {}]

\* types.Result{}: the zero value
EmptyResult == [Subdomain |-> "", IP |-> "", Status |-> "", Response |-> "",
                Ports |-> {}, SSL |-> NoSSL, Technologies |-> <<>>, Server |-> "",
                Vulnerabilities |-> <<>>, RiskLevel |-> "", Confidence |-> 0]

\* candidate name built by the dispatched goroutine
Candidate(w) == w \o "." \o Domain

\* fmt.Sprintf("%d", response.StatusCode)
StatusText(code) ==
    CASE code = 200 -> "200"
      [] code = 403 -> "403"
      [] code = 500 -> "500"
      [] OTHER -> "0"

\* Checker.Check: http:// first, then https://; a code of 0 stands for a nil response
Check(httpResp, httpsResp) ==
    IF httpResp # 0 THEN [status |-> StatusText(httpResp), response |-> "Status"]
    ELSE IF httpsResp # 0 THEN [status |-> StatusText(httpsResp), response |-> "Status"]
    ELSE [status |-> "N/A", response |-> "No HTTP response"]

\* int(x / 24) on a float: truncation toward zero
TruncDiv(a, b) == IF a >= 0 THEN a \div b ELSE -((-a) \div b)

\* SSLAnalyzer.analyzeCertificate, from the hours left until NotAfter
analyzeCertificate(hoursLeft, certVulns) ==
    LET daysUntilExpiry == TruncDiv(hoursLeft, 24)
    IN  [present |-> TRUE,
         Expired |-> hoursLeft < 0,
         ExpiresSoon |-> daysUntilExpiry < 30,
         DaysUntilExpiry |-> daysUntilExpiry,
         Vulnerabilities |-> certVulns]

SeverityScore(s) ==
    CASE s = "Critical" -> 10
      [] s = "High" -> 7
      [] s = "Medium" -> 4
      [] s = "Low" -> 1
      [] OTHER -> 0

RECURSIVE VulnScore(_)
VulnScore(vs) == IF vs = <<>> THEN 0 ELSE SeverityScore(Head(vs)) + VulnScore(Tail(vs))

\* riskScore in which an expired certificate sets the score instead of adding to it
riskScore_ExpiredAssigns(r) ==
      (IF r.SSL.present /\ r.SSL.Expired THEN 8 ELSE VulnScore(r.Vulnerabilities))
    + (IF r.SSL.present /\ r.SSL.ExpiresSoon THEN 3 ELSE 0)
    + (IF r.SSL.present /\ r.SSL.Vulnerabilities # {} THEN 5 ELSE 0)
    + (IF Cardinality(r.Ports) > 10 THEN 3 ELSE 0)
    + (CASE r.Status = "403" -> 2 [] r.Status = "500" -> 5 [] OTHER -> 0)

riskScore(r) ==
      VulnScore(r.Vulnerabilities)
    + (IF r.SSL.present /\ r.SSL.Expired THEN 8 ELSE 0)
    + (IF r.SSL.present /\ r.SSL.ExpiresSoon THEN 3 ELSE 0)
    + (IF r.SSL.present /\ r.SSL.Vulnerabilities # {} THEN 5 ELSE 0)
    + (IF Cardinality(r.Ports) > 10 THEN 3 ELSE 0)
    + (CASE r.Status = "403" -> 2 [] r.Status = "500" -> 5 [] OTHER -> 0)

\* assessRisk with the high threshold one point lower
assessRisk_HighAt14(r) ==
    LET s == riskScore(r)
    IN  IF s >= 14 THEN "high"
        ELSE IF s >= 8 THEN "medium"
        ELSE IF s >= 3 THEN "low"
        ELSE "info"

assessRisk(r) ==
    LET s == riskScore(r)
    IN  IF s >= 15 THEN "high"
        ELSE IF s >= 8 THEN "medium"
        ELSE IF s >= 3 THEN "low"
        ELSE "info"

\* calculateConfidence that does not count the certificate
calculateConfidence_NoCert(r) ==
    LET c == 50 + (IF r.IP # "" THEN 20 ELSE 0)
                + (IF r.Status # "" THEN 15 ELSE 0)
                + (IF Len(r.Technologies) > 0 THEN 10 ELSE 0)
    IN  IF c > 100 THEN 100 ELSE c

calculateConfidence(r) ==
    LET c == 50 + (IF r.IP # "" THEN 20 ELSE 0)
                + (IF r.Status # "" THEN 15 ELSE 0)
                + (IF Len(r.Technologies) > 0 THEN 10 ELSE 0)
                + (IF r.SSL.present THEN 5 ELSE 0)
    IN  IF c > 100 THEN 100 ELSE c

\* ---- the stages of checkSubdomain, each applied to the result so far ----
newResult(subdomain) == [EmptyResult EXCEPT !.Subdomain = subdomain]

dnsStage(r, ip) == [r EXCEPT !.IP = ip]

httpStage(r, h) ==
    LET c == Check(h[1], h[2])
    IN  [r EXCEPT !.Status = c.status, !.Response = c.response]

portStage(r, open) == [r EXCEPT !.Ports = open]

\* a TLS stage that treats its failure like a failed resolution
sslStage_HardGate(r, s) ==
    IF s.err THEN EmptyResult ELSE [r EXCEPT !.SSL = analyzeCertificate(s.hoursLeft, s.vulns)]

sslStage(r, s) ==
    IF s.err THEN r ELSE [r EXCEPT !.SSL = analyzeCertificate(s.hoursLeft, s.vulns)]

techStage(r, t) ==
    IF t.err THEN r ELSE [r EXCEPT !.Technologies = t.techs, !.Server = t.server]

vulnStage(r, v) ==
    IF v.err THEN r ELSE [r EXCEPT !.Vulnerabilities = v.sevs]

riskStage(r) ==
    LET r1 == [r EXCEPT !.RiskLevel = assessRisk(r)]
    IN  [r1 EXCEPT !.Confidence = calculateConfidence(r1)]

\* checkSubdomain without the DNS gate: the half-built result is returned
checkSubdomain_NoDnsGate(subdomain, ip, o) ==
    riskStage(vulnStage(techStage(sslStage(portStage(httpStage(
        dnsStage(newResult(subdomain), ip), o.http), o.ports), o.ssl), o.tech), o.vuln))

\* Finder.checkSubdomain: ip is the resolver's answer ("" = error), o the
\* outcomes of the five soft probes
checkSubdomain(subdomain, ip, o) ==
    IF ip = "" THEN EmptyResult
    ELSE riskStage(vulnStage(techStage(sslStage(portStage(httpStage(
             dnsStage(newResult(subdomain), ip), o.http), o.ports), o.ssl), o.tech), o.vuln))

(***************************************************************************)
(* The outcomes the probes can have.                                       *)
(***************************************************************************)
HttpCodes == {0, 200, 403, 500}
HttpOutcomes == HttpCodes \X HttpCodes
PortOutcomes == {{}, {80, 443}, {21, 22, 23, 25, 53, 80, 110, 135, 139, 143, 443}}
SslFailure == [err |-> TRUE, hoursLeft |-> 0, vulns |-> {}]
SslOutcomes ==
    {SslFailure} \cup
    [err : {FALSE}, hoursLeft : {-30, -5, 100, 2000}, vulns : {{}, {"weak-signature"}}]
TechFailure == [err |-> TRUE, techs |-> <<>>, server |-> ""]
TechOutcomes ==
    {TechFailure} \cup
    {[err |-> FALSE, techs |-> <<>>, server |-> ""],
     [err |-> FALSE, techs |-> <<"Web Server">>, server |-> "nginx"]}
Severities == {"Critical", "High", "Medium", "Low"}
VulnFailure == [err |-> TRUE, sevs |-> <<>>]
VulnOutcomes ==
    {VulnFailure} \cup [err : {FALSE}, sevs : SeqsUpTo(Severities, MaxVulns)]

ProbeOutcomes ==
    [http : HttpOutcomes, ports : PortOutcomes, ssl : SslOutcomes,
     tech : TechOutcomes, vuln : VulnOutcomes]

AllProbesFail ==
    [http |-> <<0, 0>>, ports |-> {}, ssl |-> SslFailure, tech |-> TechFailure,
     vuln |-> VulnFailure]
AllProbesAnswer ==
    [http |-> <<200, 200>>, ports |-> {80, 443},
     ssl |-> [err |-> FALSE, hoursLeft |-> 2000, vulns |-> {}],
     tech |-> [err |-> FALSE, techs |-> <<"Web Server">>, server |-> "nginx"],
     vuln |-> [err |-> FALSE, sevs |-> <<"Low">>]]
\* the probe outcomes drawn inside Find, where only the scheduling matters
SchedulerProbes == {AllProbesFail, AllProbesAnswer}

(***************************************************************************)
(* Finder.Find (capture.go:335-369).  One goroutine per word, a buffered    *)
(* channel as semaphore, a WaitGroup, the goroutine that closes the        *)
(* results channel, and the collector loop of the caller.                  *)
(***************************************************************************)
Goroutines == 1..Len(words)
Candidates == {Candidate(w) : w \in WordSet}

Callers == 1..MaxCallers
NoReturn == [outcome |-> "none", blocked |-> FALSE]

LimiterIdle ==
    /\ rate = 1
    /\ interval = 1
    /\ tokens = 1
    /\ lastTime = 0
    /\ mu = 0
    /\ now = 0
    /\ wpc = [c \in Callers |-> "idle"]
    /\ wakeAt = 0
    /\ ctxDone = [c \in Callers |-> FALSE]
    /\ lastRet = NoReturn
    /\ grants = <<>>
    /\ warm = FALSE
    /\ rateChanged = FALSE
    /\ rd = [c \in Callers |-> 0]
    /\ granted = 0

PipeIdle ==
    /\ stage = "idle"
    /\ cand = ""
    /\ partial = EmptyResult
    /\ failed = {}
    /\ emitted = <<>>

\* the values of the Retryer's world: nil and two errors, the zero value of T
\* and two other values
Errs == {"e1", "e2"}
Vals == {"v1", "v2"}
NoValue == [err |-> "nil", res |-> "zero"]
LinearBackoffs == [kind : {"linear"}, BaseDelay : 1..MaxBaseDelay, MaxDelay : {0}]
ExponentialBackoffs ==
    [kind : {"exponential"}, BaseDelay : 1..MaxBaseDelay, MaxDelay : 1..MaxMaxDelay]

RetryIdle ==
    /\ maxRetries = 0
    /\ backoff = [kind |-> "linear", BaseDelay |-> 1, MaxDelay |-> 0]
    /\ variant = "none"
    /\ attempt = 0
    /\ rpc = "idle"
    /\ lastErr = "nil"
    /\ result = "zero"
    /\ rctxDone = FALSE
    /\ ret = NoValue
    /\ calls = <<>>
    /\ sleeps = <<>>
    /\ asked = 1
    /\ delays = <<>>

FindInit ==
    /\ threads \in 0..MaxThreads
    /\ timeout = DefaultTimeout
    /\ retries = DefaultRetries
    /\ words \in SeqsUpTo(WordSet, MaxWords)
    /\ resolver \in [Candidates -> {""} \cup IPs]
    /\ run = 0
    /\ mainPc = "ready"
    /\ next = 1
    /\ pc = [i \in 1..Len(words) |-> "idle"]
    /\ res = [i \in 1..Len(words) |-> EmptyResult]
    /\ semaphore = 0
    /\ wg = 0
    /\ resultsChan = <<>>
    /\ closed = FALSE
    /\ closerPc = "none"
    /\ results = <<>>
    /\ pushed = EmptyBag
    /\ sendOnClosed = FALSE
    /\ crashed = FALSE
    /\ PipeIdle
    /\ LimiterIdle
    /\ RetryIdle

\* entry of Find: the locals are created (336-341)
Find ==
    /\ ~crashed
    /\ mainPc \in {"ready", "returned"}
    /\ run < MaxRuns
    /\ run' = run + 1
    /\ mainPc' = "loop"
    /\ next' = 1
    /\ pc' = [i \in Goroutines |-> "idle"]
    /\ res' = [i \in Goroutines |-> EmptyResult]
    /\ semaphore' = 0
    /\ wg' = 0
    /\ resultsChan' = <<>>
    /\ closed' = FALSE
    /\ closerPc' = "none"
    /\ results' = <<>>
    /\ pushed' = EmptyBag
    /\ UNCHANGED <<threads, timeout, retries, words, resolver, sendOnClosed, crashed, pipeVars, retryVars, limVars>>

\* one iteration of the dispatch loop: wg.Add(1); go func(w) (343-357)
Dispatch ==
    /\ ~crashed
    /\ mainPc = "loop"
    /\ next <= Len(words)
    /\ wg' = wg + 1
    /\ pc' = [pc EXCEPT ![next] = "acquire"]
    /\ next' = next + 1
    /\ UNCHANGED <<threads, timeout, retries, words, resolver, run, mainPc, res, semaphore, resultsChan,
                   closed, closerPc, results, pushed, sendOnClosed, crashed, pipeVars, retryVars, limVars>>

\* after the loop: go func() { wg.Wait(); close(resultsChan) }() (359-362)
GoCloser ==
    /\ ~crashed
    /\ mainPc = "loop"
    /\ next > Len(words)
    /\ closerPc' = "wait"
    /\ mainPc' = "range"
    /\ UNCHANGED <<threads, timeout, retries, words, resolver, run, next, pc, res, semaphore, wg,
                   resultsChan, closed, results, pushed, sendOnClosed, crashed, pipeVars, retryVars, limVars>>

\* Acquire with the admission gate left out: the send never blocks
Acquire_NoGate(i) ==
    /\ ~crashed
    /\ pc[i] = "acquire"
    /\ semaphore' = semaphore + 1
    /\ pc' = [pc EXCEPT ![i] = "check"]
    /\ UNCHANGED <<threads, timeout, retries, words, resolver, run, mainPc, next, res, wg, resultsChan,
                   closed, closerPc, results, pushed, sendOnClosed, crashed, pipeVars, retryVars, limVars>>

\* semaphore <- struct{}{} (347): blocks while the channel is full
Acquire(i) ==
    /\ ~crashed
    /\ pc[i] = "acquire"
    /\ semaphore < threads
    /\ semaphore' = semaphore + 1
    /\ pc' = [pc EXCEPT ![i] = "check"]
    /\ UNCHANGED <<threads, timeout, retries, words, resolver, run, mainPc, next, res, wg, resultsChan,
                   closed, closerPc, results, pushed, sendOnClosed, crashed, pipeVars, retryVars, limVars>>

\* subdomain := w + "." + domain; result := f.checkSubdomain(subdomain) (350-351)
RunCheck(i, O) ==
    /\ ~crashed
    /\ pc[i] = "check"
    /\ \E o \in O :
          res' = [res EXCEPT ![i] =
                     checkSubdomain(Candidate(words[i]), resolver[Candidate(words[i])], o)]
    /\ pc' = [pc EXCEPT ![i] = "emit"]
    /\ UNCHANGED <<threads, timeout, retries, words, resolver, run, mainPc, next, semaphore, wg, resultsChan,
                   closed, closerPc, results, pushed, sendOnClosed, crashed, pipeVars, retryVars, limVars>>

\* if result.Subdomain != "" (353)
emits(r) == r.Subdomain # ""

\* a results channel with one place per admission slot
Capacity_Threads == threads
\* the capacity of resultsChan: make(chan types.Result, len(words)) (338)
Capacity == Len(words)

\* resultsChan <- result (354): blocks while the buffer of len(words) is full,
\* panics when the channel is closed
Push(i) ==
    /\ ~crashed
    /\ pc[i] = "emit"
    /\ emits(res[i])
    /\ closed \/ Len(resultsChan) < Capacity
    /\ IF closed
       THEN /\ sendOnClosed' = TRUE
            /\ crashed' = TRUE
            /\ UNCHANGED <<resultsChan, pushed>>
       ELSE /\ resultsChan' = Append(resultsChan, res[i])
            /\ pushed' = pushed (+) SetToBag({res[i]})
            /\ UNCHANGED <<sendOnClosed, crashed>>
    /\ pc' = [pc EXCEPT ![i] = "release"]
    /\ UNCHANGED <<threads, timeout, retries, words, resolver, run, mainPc, next, res, semaphore, wg,
                   closed, closerPc, results, pipeVars, retryVars, limVars>>

\* the empty Result of an unresolved name is not sent (353)
Skip(i) ==
    /\ ~crashed
    /\ pc[i] = "emit"
    /\ ~emits(res[i])
    /\ pc' = [pc EXCEPT ![i] = "release"]
    /\ UNCHANGED <<threads, timeout, retries, words, resolver, run, mainPc, next, res, semaphore, wg,
                   resultsChan, closed, closerPc, results, pushed, sendOnClosed, crashed,
                   pipeVars, retryVars, limVars>>

\* Release that forgets to take the element back out of the semaphore
Release_Leak(i) ==
    /\ ~crashed
    /\ pc[i] = "release"
    /\ pc' = [pc EXCEPT ![i] = "wgdone"]
    /\ UNCHANGED <<threads, timeout, retries, words, resolver, run, mainPc, next, res, semaphore, wg,
                   resultsChan, closed, closerPc, results, pushed, sendOnClosed, crashed,
                   pipeVars, retryVars, limVars>>

\* deferred func() { <-semaphore }() (348)
Release(i) ==
    /\ ~crashed
    /\ pc[i] = "release"
    /\ semaphore > 0
    /\ semaphore' = semaphore - 1
    /\ pc' = [pc EXCEPT ![i] = "wgdone"]
    /\ UNCHANGED <<threads, timeout, retries, words, resolver, run, mainPc, next, res, wg, resultsChan,
                   closed, closerPc, results, pushed, sendOnClosed, crashed, pipeVars, retryVars, limVars>>

\* deferred wg.Done() (346)
WgDone(i) ==
    /\ ~crashed
    /\ pc[i] = "wgdone"
    /\ wg' = wg - 1
    /\ pc' = [pc EXCEPT ![i] = "done"]
    /\ UNCHANGED <<threads, timeout, retries, words, resolver, run, mainPc, next, res, semaphore,
                   resultsChan, closed, closerPc, results, pushed, sendOnClosed, crashed,
                   pipeVars, retryVars, limVars>>

\* CloserWait without the completion barrier: close as soon as the closer runs
CloserWait_NoBarrier ==
    /\ ~crashed
    /\ closerPc = "wait"
    /\ closerPc' = "close"
    /\ UNCHANGED <<threads, timeout, retries, words, resolver, run, mainPc, next, pc, res, semaphore, wg,
                   resultsChan, closed, results, pushed, sendOnClosed, crashed, pipeVars, retryVars, limVars>>

\* wg.Wait() returns once the counter is zero (360)
CloserWait ==
    /\ ~crashed
    /\ closerPc = "wait"
    /\ wg = 0
    /\ closerPc' = "close"
    /\ UNCHANGED <<threads, timeout, retries, words, resolver, run, mainPc, next, pc, res, semaphore, wg,
                   resultsChan, closed, results, pushed, sendOnClosed, crashed, pipeVars, retryVars, limVars>>

\* close(resultsChan) (361)
CloserClose ==
    /\ ~crashed
    /\ closerPc = "close"
    /\ closed' = TRUE
    /\ closerPc' = "done"
    /\ UNCHANGED <<threads, timeout, retries, words, resolver, run, mainPc, next, pc, res, semaphore, wg,
                   resultsChan, results, pushed, sendOnClosed, crashed, pipeVars, retryVars, limVars>>

\* one iteration of for result := range resultsChan (364-366)
Collect ==
    /\ ~crashed
    /\ mainPc = "range"
    /\ resultsChan # <<>>
    /\ results' = Append(results, Head(resultsChan))
    /\ resultsChan' = Tail(resultsChan)
    /\ UNCHANGED <<threads, timeout, retries, words, resolver, run, mainPc, next, pc, res, semaphore, wg,
                   closed, closerPc, pushed, sendOnClosed, crashed, pipeVars, retryVars, limVars>>

\* the range loop ends on the closed, drained channel; return results (368)
Return ==
    /\ ~crashed
    /\ mainPc = "range"
    /\ resultsChan = <<>>
    /\ closed
    /\ mainPc' = "returned"
    /\ UNCHANGED <<threads, timeout, retries, words, resolver, run, next, pc, res, semaphore, wg,
                   resultsChan, closed, closerPc, results, pushed, sendOnClosed, crashed,
                   pipeVars, retryVars, limVars>>

Next ==
    \/ Find
    \/ Dispatch
    \/ GoCloser
    \/ \E i \in Goroutines : Acquire(i)
    \/ \E i \in Goroutines : RunCheck(i, SchedulerProbes)
    \/ \E i \in Goroutines : Push(i)
    \/ \E i \in Goroutines : Skip(i)
    \/ \E i \in Goroutines : Release(i)
    \/ \E i \in Goroutines : WgDone(i)
    \/ CloserWait
    \/ CloserClose
    \/ Collect
    \/ Return

Spec == FindInit /\ [][Next]_vars

\* the probe outcomes of the liveness specification: termination does not
\* depend on what the probes answer
LiveProbes == {AllProbesAnswer}

\* the internal steps of one Find call
LiveSteps ==
    \/ Dispatch
    \/ GoCloser
    \/ \E i \in Goroutines : Acquire(i)
    \/ \E i \in Goroutines : RunCheck(i, LiveProbes)
    \/ \E i \in Goroutines : Push(i)
    \/ \E i \in Goroutines : Skip(i)
    \/ \E i \in Goroutines : Release(i)
    \/ \E i \in Goroutines : WgDone(i)
    \/ CloserWait
    \/ CloserClose
    \/ Collect
    \/ Return

\* one call: Find makes every local anew, so a later call on the same Finder
\* repeats the steps of the first
LiveNext == (Find /\ run = 0) \/ LiveSteps

\* the Go scheduler runs every runnable goroutine eventually, and every probe
\* returns within its timeout: the internal steps are weakly fair; calling
\* Find again is up to the caller
LiveSpec == FindInit /\ [][LiveNext]_vars /\ WF_vars(LiveSteps)

(***************************************************************************)
(* Properties of Find.                                                     *)
(***************************************************************************)
\* goroutines that hold an admission slot: acquired and not yet released
InFlight == {i \in Goroutines : pc[i] \in {"check", "panicking", "emit", "release"}}

\* C1: with Threads = N >= 1, at most N goroutines hold an admission slot
\* (are between the acquire and the release of the semaphore) in any
\* reachable state.
C1_AdmissionBound ==
    threads >= 1 => /\ Cardinality(InFlight) <= threads
                    /\ semaphore = Cardinality(InFlight)

\* the gate is saturated while another goroutine is blocked on it
C1_Witness ==
    /\ threads >= 1
    /\ Cardinality(InFlight) = threads
    /\ \E i \in Goroutines : pc[i] = "acquire"
    /\ \E i \in Goroutines : pc[i] = "check"

\* C2: every Result sent on resultsChan is in the returned slice exactly
\* once (as bags: sent = still queued + collected), the channel is closed
\* only after every dispatched goroutine has finished, and nothing is ever
\* sent on the closed channel.
C2_ExactlyOnce ==
    /\ mainPc \in {"range", "returned"} =>
           BagOfSeq(results) (+) BagOfSeq(resultsChan) = pushed
    /\ mainPc = "returned" => BagOfSeq(results) = pushed
    /\ closed => \A i \in Goroutines : pc[i] = "done"
    /\ ~sendOnClosed

\* Find returned two Results that went through the channel
C2_Witness ==
    /\ mainPc = "returned"
    /\ Len(results) = 2
    /\ BagCardinality(pushed) = 2
    /\ closed

\* C3: with Threads >= 1 every started Find call closes the channel and
\* returns, under fair scheduling of its goroutines.
C3_FindReturns ==
    (mainPc = "loop" /\ threads >= 1) ~> (closed /\ mainPc = "returned")

\* a Find call with more words than slots has returned
C3_Witness ==
    /\ mainPc = "returned"
    /\ closed
    /\ threads >= 1
    /\ Len(words) > threads

\* names of the Results in a sequence
NamesIn(s) == {s[k].Subdomain : k \in 1..Len(s)}

\* C4: a candidate whose resolution fails is in no Result that is queued or
\* collected, in the first Find call and in every later one on the same
\* Finder.
C4_UnresolvedExcluded ==
    \A c \in Candidates :
        resolver[c] = "" =>
            /\ c \notin NamesIn(results)
            /\ c \notin NamesIn(resultsChan)
            /\ \A i \in Goroutines : res[i].Subdomain # c

\* the second Find call returned some Result while a word of the list does not resolve
C4_Witness ==
    /\ run = 2
    /\ mainPc = "returned"
    /\ results # <<>>
    /\ \E i \in Goroutines : resolver[Candidate(words[i])] = ""

\* C5 as claimed: the returned slice holds exactly one Result for each
\* candidate name of the wordlist that resolves, each with a non-empty IP,
\* and no Result for any other name.
C5_OneResultPerName ==
    mainPc = "returned" =>
        /\ \A i \in Goroutines :
              resolver[Candidate(words[i])] # "" =>
                  Cardinality({k \in 1..Len(results) :
                                  results[k].Subdomain = Candidate(words[i])}) = 1
        /\ \A k \in 1..Len(results) :
              /\ results[k].IP # ""
              /\ \E i \in Goroutines :
                    /\ results[k].Subdomain = Candidate(words[i])
                    /\ resolver[Candidate(words[i])] # ""

(***************************************************************************)
(* One call of checkSubdomain, stage by stage (capture.go:371-466), in the *)
(* goroutine that Find dispatched for the candidate, up to the send of the *)
(* Result (capture.go:350-355).                                            *)
(***************************************************************************)
FindIdle ==
    /\ threads = 1
    /\ timeout = DefaultTimeout
    /\ retries = DefaultRetries
    /\ words = <<>>
    /\ run = 0
    /\ mainPc = "ready"
    /\ next = 1
    /\ pc = <<>>
    /\ res = <<>>
    /\ semaphore = 0
    /\ wg = 0
    /\ resultsChan = <<>>
    /\ closed = FALSE
    /\ closerPc = "none"
    /\ results = <<>>
    /\ pushed = EmptyBag
    /\ sendOnClosed = FALSE
    /\ crashed = FALSE

findLocals == <<threads, timeout, retries, words, run, mainPc, next, pc, res, semaphore, wg, resultsChan,
                closed, closerPc, results, pushed, sendOnClosed, crashed>>

\* result := types.Result{Subdomain: subdomain, ...} (372-377)
PipeInit ==
    /\ FindIdle
    /\ resolver \in [Candidates -> {""} \cup IPs]
    /\ cand \in Candidates
    /\ stage = "dns"
    /\ partial = newResult(cand)
    /\ failed = {}
    /\ emitted = <<>>
    /\ LimiterIdle
    /\ RetryIdle

\* StageDNS without the early return: the HTTP stage follows a failed resolution
StageDNS_NoGate ==
    /\ stage = "dns"
    /\ partial' = dnsStage(partial, resolver[cand])
    /\ failed' = IF resolver[cand] = "" THEN failed \cup {"dns"} ELSE failed
    /\ stage' = "http"
    /\ UNCHANGED <<findLocals, resolver, cand, emitted, limVars, retryVars>>

\* ip, err := f.dns.Resolve(subdomain); if err != nil { return types.Result{} } (380-384)
StageDNS ==
    /\ stage = "dns"
    /\ IF resolver[cand] = ""
       THEN /\ partial' = EmptyResult
            /\ failed' = failed \cup {"dns"}
            /\ stage' = "return"
       ELSE /\ partial' = dnsStage(partial, resolver[cand])
            /\ failed' = failed
            /\ stage' = "http"
    /\ UNCHANGED <<findLocals, resolver, cand, emitted, limVars, retryVars>>

\* status, response := f.http.Check(subdomain) (387-389)
StageHTTP ==
    /\ stage = "http"
    /\ \E h \in HttpOutcomes :
          /\ partial' = httpStage(partial, h)
          /\ failed' = IF h = <<0, 0>> THEN failed \cup {"http"} ELSE failed
    /\ stage' = "ports"
    /\ UNCHANGED <<findLocals, resolver, cand, emitted, limVars, retryVars>>

\* portResult := f.portScanner.QuickScan(ip) (392-407); no open port: nothing recorded
StagePorts ==
    /\ stage = "ports"
    /\ \E open \in PortOutcomes :
          /\ partial' = portStage(partial, open)
          /\ failed' = IF open = {} THEN failed \cup {"ports"} ELSE failed
    /\ stage' = "ssl"
    /\ UNCHANGED <<findLocals, resolver, cand, emitted, limVars, retryVars>>

\* if sslResult, err := f.sslAnalyzer.Analyze(subdomain, 443); err == nil (410-426)
StageSSL ==
    /\ stage = "ssl"
    /\ \E s \in SslOutcomes :
          /\ partial' = sslStage(partial, s)
          /\ failed' = IF s.err THEN failed \cup {"ssl"} ELSE failed
    /\ stage' = "tech"
    /\ UNCHANGED <<findLocals, resolver, cand, emitted, limVars, retryVars>>

\* if techResult, err := f.techDetector.Detect(...); err == nil (429-442)
StageTech ==
    /\ stage = "tech"
    /\ \E t \in TechOutcomes :
          /\ partial' = techStage(partial, t)
          /\ failed' = IF t.err THEN failed \cup {"tech"} ELSE failed
    /\ stage' = "vuln"
    /\ UNCHANGED <<findLocals, resolver, cand, emitted, limVars, retryVars>>

\* if vulns, err := f.vulnScanner.ScanURL(...); err == nil (445-458)
StageVuln ==
    /\ stage = "vuln"
    /\ \E v \in VulnOutcomes :
          /\ partial' = vulnStage(partial, v)
          /\ failed' = IF v.err THEN failed \cup {"vuln"} ELSE failed
    /\ stage' = "risk"
    /\ UNCHANGED <<findLocals, resolver, cand, emitted, limVars, retryVars>>

\* result.RiskLevel = f.assessRisk(result); result.Confidence = ... (461-465)
StageRisk ==
    /\ stage = "risk"
    /\ partial' = riskStage(partial)
    /\ stage' = "return"
    /\ UNCHANGED <<findLocals, resolver, cand, failed, emitted, limVars, retryVars>>

\* back in Find: if result.Subdomain != "" { resultsChan <- result } (353-355)
PipeEmit ==
    /\ stage = "return"
    /\ emitted' = IF emits(partial) THEN <<partial>> ELSE <<>>
    /\ stage' = "done"
    /\ UNCHANGED <<findLocals, resolver, cand, partial, failed, limVars, retryVars>>

PipeNext ==
    \/ StageDNS
    \/ StageHTTP
    \/ StagePorts
    \/ StageSSL
    \/ StageTech
    \/ StageVuln
    \/ StageRisk
    \/ PipeEmit

PipeSpec == PipeInit /\ [][PipeNext]_vars

\* the fields of types.Result each soft stage writes
SoftStages == {"http", "ports", "ssl", "tech", "vuln"}
Owned(st) ==
    CASE st = "http" -> {"Status", "Response"}
      [] st = "ports" -> {"Ports"}
      [] st = "ssl" -> {"SSL"}
      [] st = "tech" -> {"Technologies", "Server"}
      [] st = "vuln" -> {"Vulnerabilities"}
      [] OTHER -> {}

\* a failed stage left its own fields without data
OwnFieldsAbsent(r, st) ==
    CASE st = "http" -> r.Status = "N/A" /\ r.Response = "No HTTP response"
      [] st = "ports" -> r.Ports = {}
      [] st = "ssl" -> ~r.SSL.present
      [] st = "tech" -> r.Technologies = <<>> /\ r.Server = ""
      [] st = "vuln" -> r.Vulnerabilities = <<>>
      [] OTHER -> TRUE

\* the Result of a finished pipeline whose name resolved
SoftFailuresDegrade ==
    stage = "done" /\ resolver[cand] # "" =>
        /\ emitted = <<partial>>
        /\ partial.Subdomain = cand
        /\ partial.IP = resolver[cand]
        /\ \A st \in failed : OwnFieldsAbsent(partial, st)

\* a step of a soft stage writes its own fields only and goes on to the next stage
SoftStageFrame ==
    stage \in SoftStages =>
        /\ \A f \in DOMAIN partial \ Owned(stage) : partial'[f] = partial[f]
        /\ stage' \notin {"return", "done"}

Panic(i) ==
    /\ ~crashed
    /\ pc[i] = "check"
    /\ pc' = [pc EXCEPT ![i] = "panicking"]
    /\ UNCHANGED <<threads, timeout, retries, words, resolver, run, mainPc, next, res, semaphore, wg,
                   resultsChan, closed, closerPc, results, pushed, sendOnClosed, crashed,
                   pipeVars, retryVars, limVars>>

\* the deferred <-semaphore and wg.Done() run while panicking; nothing recovers,
\* so the process exits
Unwind(i) ==
    /\ ~crashed
    /\ pc[i] = "panicking"
    /\ semaphore > 0
    /\ semaphore' = semaphore - 1
    /\ wg' = wg - 1
    /\ pc' = [pc EXCEPT ![i] = "dead"]
    /\ crashed' = TRUE
    /\ UNCHANGED <<threads, timeout, retries, words, resolver, run, mainPc, next, res, resultsChan, closed,
                   closerPc, results, pushed, sendOnClosed, pipeVars, retryVars, limVars>>

FaultNext ==
    \/ Find
    \/ Dispatch
    \/ GoCloser
    \/ \E i \in Goroutines : Acquire(i)
    \/ \E i \in Goroutines : RunCheck(i, LiveProbes)
    \/ \E i \in Goroutines : Panic(i)
    \/ \E i \in Goroutines : Unwind(i)
    \/ \E i \in Goroutines : Push(i)
    \/ \E i \in Goroutines : Skip(i)
    \/ \E i \in Goroutines : Release(i)
    \/ \E i \in Goroutines : WgDone(i)
    \/ CloserWait
    \/ CloserClose
    \/ Collect
    \/ Return

FaultSpec == FindInit /\ [][FaultNext]_vars

\* C7 as claimed: after a fault in one execution the others still run: the
\* faulting goroutine sent nothing and released its slot, and either Find
\* has returned or some goroutine of the call can still take a step.
C7_FaultContained ==
    \A i \in Goroutines :
        pc[i] = "dead" =>
            /\ res[i] = EmptyResult
            /\ semaphore = Cardinality(InFlight)
            /\ mainPc = "returned" \/ ENABLED FaultNext

(***************************************************************************)
(* limiter.RateLimiter (logger.go:127-186).  Wait holds rl.mu from its      *)
(* first line to its return, the blocking select included.                 *)
(***************************************************************************)
\* NewRateLimiter(rate, interval) at time 0 (135-142)
LimiterInit ==
    /\ FindIdle
    /\ resolver = [c \in Candidates |-> ""]
    /\ PipeIdle
    /\ RetryIdle
    /\ rate \in 0..MaxRate
    /\ interval \in 1..MaxInterval
    /\ tokens = rate
    /\ lastTime = 0
    /\ now = 0
    /\ mu = 0
    /\ wpc = [c \in Callers |-> "idle"]
    /\ wakeAt = 0
    /\ ctxDone = [c \in Callers |-> FALSE]
    /\ lastRet = NoReturn
    /\ grants = <<>>
    /\ warm = FALSE
    /\ rateChanged = FALSE
    /\ rd = [c \in Callers |-> 0]
    /\ granted = 0

\* the refill step of Wait (148-155)
Elapsed == now - lastTime
TokensToAdd == Elapsed \div interval
\* the refill without the cap at rate
RefilledTokens_NoCap == IF TokensToAdd > 0 THEN tokens + TokensToAdd ELSE tokens
RefilledTokens == IF TokensToAdd > 0 THEN Min(tokens + TokensToAdd, rate) ELSE tokens
\* the refill that moves lastTime on every call
RefilledLast_Always == now
RefilledLast == IF TokensToAdd > 0 THEN now ELSE lastTime
\* waitTime := rl.interval - elapsed (162)
WaitTime == interval - Elapsed

\* Wait returns to caller c; its deferred Unlock runs, the next call gets a new context
Returned(c, outcome, blocked) ==
    /\ lastRet' = [outcome |-> outcome, blocked |-> blocked]
    /\ mu' = 0
    /\ wpc' = [wpc EXCEPT ![c] = "idle"]
    /\ ctxDone' = [ctxDone EXCEPT ![c] = FALSE]
    /\ wakeAt' = 0
    /\ grants' = IF outcome = "ok" /\ ~blocked /\ warm THEN Append(grants, now) ELSE grants

\* caller c calls Wait(ctx) and reaches rl.mu.Lock() (144-145)
Call(c) ==
    /\ wpc[c] = "idle"
    /\ wpc' = [wpc EXCEPT ![c] = "lock"]
    /\ UNCHANGED <<findVars, pipeVars, retryVars, rd, granted,
                   rate, interval, tokens, lastTime, mu, now, wakeAt,
                   ctxDone, lastRet, grants, warm, rateChanged>>

\* Wait from the acquired lock to the first return or to the select (145-164).
\* A select that finds ctx.Done() ready and the timer not yet due takes the
\* ctx.Done() case ("ctxwoken"); otherwise the goroutine parks ("select").
WaitEnter(c) ==
    /\ wpc[c] = "lock"
    /\ mu = 0
    /\ lastTime' = RefilledLast
    /\ IF RefilledTokens > 0
       THEN /\ tokens' = RefilledTokens - 1
            /\ warm' = (warm \/ RefilledTokens - 1 = 0)
            /\ Returned(c, "ok", FALSE)
       ELSE /\ tokens' = RefilledTokens
            /\ warm' = warm
            /\ IF WaitTime > 0
               THEN /\ mu' = c
                    /\ wpc' = [wpc EXCEPT ![c] = IF ctxDone[c] THEN "ctxwoken" ELSE "select"]
                    /\ wakeAt' = now + WaitTime
                    /\ UNCHANGED <<ctxDone, lastRet, grants>>
               ELSE Returned(c, "ok", FALSE)
    /\ UNCHANGED <<findVars, pipeVars, retryVars, rd, granted,
                   rate, interval, now, rateChanged>>

\* WaitTimer that goes through the refill computation again
WaitTimer_Refills(c) ==
    /\ wpc[c] = "select"
    /\ now >= wakeAt
    /\ tokens' = RefilledTokens - 1
    /\ lastTime' = RefilledLast
    /\ Returned(c, "ok", TRUE)
    /\ UNCHANGED <<findVars, pipeVars, retryVars, rd, granted,
                   rate, interval, now, warm, rateChanged>>

\* case <-time.After(waitTime): rl.tokens = rl.rate - 1; rl.lastTime = time.Now() (167-173)
WaitTimer(c) ==
    /\ wpc[c] = "select"
    /\ now >= wakeAt
    /\ tokens' = rate - 1
    /\ lastTime' = now
    /\ Returned(c, "ok", TRUE)
    /\ UNCHANGED <<findVars, pipeVars, retryVars, rd, granted,
                   rate, interval, now, warm, rateChanged>>

\* WaitCancel with the error dropped: the caller is told ok
WaitCancel_ReturnsOk(c) ==
    /\ \/ wpc[c] = "ctxwoken"
       \/ wpc[c] = "select" /\ ctxDone[c] /\ now >= wakeAt
    /\ Returned(c, "ok", TRUE)
    /\ UNCHANGED <<findVars, pipeVars, retryVars, rd, granted,
                   rate, interval, tokens, lastTime, now, warm,
                   rateChanged>>

\* case <-ctx.Done(): return ctx.Err() (165-166).  A goroutine woken by
\* ctx.Done() returns the error; when the timer was due as well by the time
\* ctx fired, the select may take either case.
WaitCancel(c) ==
    /\ \/ wpc[c] = "ctxwoken"
       \/ wpc[c] = "select" /\ ctxDone[c] /\ now >= wakeAt
    /\ Returned(c, "cancelled", TRUE)
    /\ UNCHANGED <<findVars, pipeVars, retryVars, rd, granted,
                   rate, interval, tokens, lastTime, now, warm,
                   rateChanged>>

\* the context of a caller inside Wait is cancelled or its deadline passes; a
\* goroutine parked in the select before its timer is due is woken by ctx.Done()
Cancel(c) ==
    /\ wpc[c] # "idle"
    /\ ~ctxDone[c]
    /\ ctxDone' = [ctxDone EXCEPT ![c] = TRUE]
    /\ wpc' = IF wpc[c] = "select" /\ now < wakeAt
              THEN [wpc EXCEPT ![c] = "ctxwoken"]
              ELSE wpc
    /\ UNCHANGED <<findVars, pipeVars, retryVars, rd, granted,
                   rate, interval, tokens, lastTime, mu, now,
                   wakeAt, lastRet, grants, warm, rateChanged>>

\* SetRate (176-180)
SetRate(r) ==
    /\ mu = 0
    /\ r # rate
    /\ rate' = r
    /\ rateChanged' = TRUE
    /\ UNCHANGED <<findVars, pipeVars, retryVars, rd, granted,
                   interval, tokens, lastTime, mu, now, wpc, wakeAt,
                   ctxDone, lastRet, grants, warm>>

\* time passes; grants older than one interval leave the window (now - interval, now]
Tick ==
    /\ now < MaxTime
    /\ now' = now + 1
    /\ grants' = SelectSeq(grants, LAMBDA t : t > now + 1 - interval)
    /\ UNCHANGED <<findVars, pipeVars, retryVars, rd, granted,
                   rate, interval, tokens, lastTime, mu, wpc, wakeAt,
                   ctxDone, lastRet, warm, rateChanged>>

LimiterNext ==
    \/ \E c \in Callers : Call(c)
    \/ \E c \in Callers : WaitEnter(c)
    \/ \E c \in Callers : WaitTimer(c)
    \/ \E c \in Callers : WaitCancel(c)
    \/ \E c \in Callers : Cancel(c)
    \/ \E r \in 0..MaxRate : SetRate(r)
    \/ Tick

LimiterSpec == LimiterInit /\ [][LimiterNext]_vars

\* C8 as claimed: 0 <= tokens <= rate in every reachable state of the limiter.
C8_TokensInRange == 0 <= tokens /\ tokens <= rate

\* C9 as claimed: with a fixed rate R >= 1, once the initial bucket is used
\* up, at most R calls of Wait return ok without blocking in any window of
\* one interval (here the window (now - interval, now]).
C9_AtMostRatePerInterval ==
    rate >= 1 /\ ~rateChanged => Len(grants) <= rate

\* C10 as claimed: on a limiter created with rate 0 (and never given another
\* rate) no call of Wait returns ok.
C10_ZeroRateNeverGrants ==
    rate = 0 /\ ~rateChanged => lastRet.outcome # "ok"

\* C11: a caller of Wait that found no token and whose context fired before
\* waitTime had elapsed gets the cancellation error, never ok, and the bucket
\* is left as it was.
C11_CancelledWaitReturnsError ==
    [][\A c \in Callers :
          wpc[c] = "ctxwoken" /\ wpc'[c] = "idle" =>
              /\ lastRet'.outcome = "cancelled"
              /\ tokens' = tokens
              /\ grants' = grants]_vars

C11_Witness ==
    /\ lastRet.outcome = "cancelled"
    /\ lastRet.blocked
    /\ now < lastTime + interval

(***************************************************************************)
(* limiter.BackoffStrategy and limiter.Retryer (logger.go:188-275).         *)
(***************************************************************************)
\* int64 arithmetic of time.Duration, at the width of the model
Wrap(x) == ((x + 2^(DurationBits - 1)) % 2^DurationBits) - 2^(DurationBits - 1)
\* 1<<uint(n): a shift count of the width or more gives 0, and uint of a
\* negative n is such a count
ShiftOne(n) == IF n < 0 \/ n >= DurationBits THEN 0 ELSE Wrap(2^n)

\* LinearBackoff.GetDelay (202-204)
LinearGetDelay(b, a) == Wrap(b.BaseDelay * a)

\* ExponentialBackoff.GetDelay (211-217)
ExponentialGetDelay(b, a) ==
    LET delay == Wrap(b.BaseDelay * ShiftOne(a - 1))
    IN  IF delay > b.MaxDelay THEN b.MaxDelay ELSE delay

\* r.config.Backoff.GetDelay(attempt) (194-196)
GetDelay(b, a) ==
    IF b.kind = "linear" THEN LinearGetDelay(b, a) ELSE ExponentialGetDelay(b, a)

\* a strategy is asked for GetDelay(1), GetDelay(2), ...
BackoffInit ==
    /\ FindIdle
    /\ resolver = [c \in Candidates |-> ""]
    /\ PipeIdle
    /\ LimiterIdle
    /\ maxRetries = 0
    /\ backoff \in LinearBackoffs \cup ExponentialBackoffs
    /\ variant = "none"
    /\ attempt = 0
    /\ rpc = "idle"
    /\ lastErr = "nil"
    /\ result = "zero"
    /\ rctxDone = FALSE
    /\ ret = NoValue
    /\ calls = <<>>
    /\ sleeps = <<>>
    /\ asked = 1
    /\ delays = <<>>

AskDelay ==
    /\ asked <= MaxAsked
    /\ delays' = Append(delays, GetDelay(backoff, asked))
    /\ asked' = asked + 1
    /\ UNCHANGED <<findVars, pipeVars, limVars, maxRetries, backoff, variant, attempt,
                   rpc, lastErr, result, rctxDone, ret, calls, sleeps>>

BackoffSpec == BackoffInit /\ [][AskDelay]_vars

\* NewRetryer(config) (223-225); the config is taken as it is, a negative
\* MaxRetries included
RetryInit ==
    /\ FindIdle
    /\ resolver = [c \in Candidates |-> ""]
    /\ PipeIdle
    /\ LimiterIdle
    /\ maxRetries \in -1..MaxRetriesBound
    /\ backoff \in LinearBackoffs \cup ExponentialBackoffs
    /\ variant = "none"
    /\ attempt = 0
    /\ rpc = "idle"
    /\ lastErr = "nil"
    /\ result = "zero"
    /\ rctxDone = FALSE
    /\ ret = NoValue
    /\ calls = <<>>
    /\ sleeps = <<>>
    /\ asked = 1
    /\ delays = <<>>

\* what fn can return: Execute's fn returns an error or nil, ExecuteWithResult's
\* fn a value and an error or nil
FnOutcomes(v) ==
    IF v = "Execute"
    THEN [err : {"nil"} \cup Errs, res : {"zero"}]
    ELSE [err : {"nil"} \cup Errs, res : Vals]

\* the method returns (res, err) to its caller
RetryReturn(value, e) ==
    /\ ret' = [err |-> e, res |-> value]
    /\ rpc' = "returned"

\* Execute / ExecuteWithResult is called: var result T; var lastErr error;
\* attempt := 0 (227-230, 251-255)
Execute(v) ==
    /\ rpc = "idle"
    /\ variant' = v
    /\ attempt' = 0
    /\ lastErr' = "nil"
    /\ result' = "zero"
    /\ rpc' = "loop"
    /\ UNCHANGED <<findVars, pipeVars, limVars, maxRetries, backoff, rctxDone, ret,
                   calls, sleeps, asked, delays>>

\* the loop condition and the start of the backoff sleep (230-233, 255-258).
\* A select that finds ctx.Done() ready takes that case unless the timer is
\* due at once (delay <= 0), when it may take either.
LoopTop ==
    /\ rpc = "loop"
    /\ IF attempt > maxRetries
       THEN /\ RetryReturn(result, lastErr)
            /\ UNCHANGED sleeps
       ELSE IF attempt > 0
       THEN /\ sleeps' = Append(sleeps, GetDelay(backoff, attempt))
            /\ rpc' \in IF ~rctxDone THEN {"sleep"}
                        ELSE IF GetDelay(backoff, attempt) > 0 THEN {"ctxwoken"}
                        ELSE {"sleep", "ctxwoken"}
            /\ UNCHANGED ret
       ELSE /\ rpc' = "call"
            /\ UNCHANGED <<ret, sleeps>>
    /\ UNCHANGED <<findVars, pipeVars, limVars, maxRetries, backoff, variant, attempt,
                   lastErr, result, rctxDone, calls, asked, delays>>

\* case <-time.After(delay): (237, 262)
SleepTimer ==
    /\ rpc = "sleep"
    /\ rpc' = "call"
    /\ UNCHANGED <<findVars, pipeVars, limVars, maxRetries, backoff, variant, attempt,
                   lastErr, result, rctxDone, ret, calls, sleeps, asked, delays>>

\* SleepCancelled without the return: the loop goes on to fn
SleepCancelled_Ignored ==
    /\ rpc = "ctxwoken"
    /\ rpc' = "call"
    /\ UNCHANGED <<findVars, pipeVars, limVars, maxRetries, backoff, variant, attempt,
                   lastErr, result, rctxDone, ret, calls, sleeps, asked, delays>>

\* case <-ctx.Done(): return ctx.Err() / return result, ctx.Err() (235-236, 260-261)
SleepCancelled ==
    /\ rpc = "ctxwoken"
    /\ RetryReturn(result, "cancelled")
    /\ UNCHANGED <<findVars, pipeVars, limVars, maxRetries, backoff, variant, attempt,
                   lastErr, result, rctxDone, calls, sleeps, asked, delays>>

\* Invoke without the return on success: the loop goes on
Invoke_NoStop ==
    /\ rpc = "call"
    /\ \E o \in FnOutcomes(variant) :
          /\ calls' = Append(calls, o)
          /\ result' = IF variant = "Execute" THEN result ELSE o.res
          /\ lastErr' = o.err
          /\ attempt' = attempt + 1
          /\ rpc' = "loop"
          /\ UNCHANGED ret
    /\ UNCHANGED <<findVars, pipeVars, limVars, maxRetries, backoff, variant, rctxDone,
                   sleeps, asked, delays>>

\* Invoke that keeps the first error it saw
Invoke_FirstErr ==
    /\ rpc = "call"
    /\ \E o \in FnOutcomes(variant) :
          /\ calls' = Append(calls, o)
          /\ IF o.err = "nil"
             THEN /\ RetryReturn(o.res, "nil")
                  /\ UNCHANGED <<result, lastErr, attempt>>
             ELSE /\ result' = IF variant = "Execute" \/ lastErr # "nil" THEN result ELSE o.res
                  /\ lastErr' = IF lastErr # "nil" THEN lastErr ELSE o.err
                  /\ attempt' = attempt + 1
                  /\ rpc' = "loop"
                  /\ UNCHANGED ret
    /\ UNCHANGED <<findVars, pipeVars, limVars, maxRetries, backoff, variant, rctxDone,
                   sleeps, asked, delays>>

\* Invoke that counts an attempt twice
Invoke_SkipsAttempt ==
    /\ rpc = "call"
    /\ \E o \in FnOutcomes(variant) :
          /\ calls' = Append(calls, o)
          /\ IF o.err = "nil"
             THEN /\ RetryReturn(o.res, "nil")
                  /\ UNCHANGED <<result, lastErr, attempt>>
             ELSE /\ result' = IF variant = "Execute" THEN result ELSE o.res
                  /\ lastErr' = o.err
                  /\ attempt' = attempt + 2
                  /\ rpc' = "loop"
                  /\ UNCHANGED ret
    /\ UNCHANGED <<findVars, pipeVars, limVars, maxRetries, backoff, variant, rctxDone,
                   sleeps, asked, delays>>

\* err := fn(); if err == nil { return }; lastErr = err; attempt++ (240-246, 265-272)
Invoke ==
    /\ rpc = "call"
    /\ \E o \in FnOutcomes(variant) :
          /\ calls' = Append(calls, o)
          /\ IF o.err = "nil"
             THEN /\ RetryReturn(o.res, "nil")
                  /\ UNCHANGED <<result, lastErr, attempt>>
             ELSE /\ result' = IF variant = "Execute" THEN result ELSE o.res
                  /\ lastErr' = o.err
                  /\ attempt' = attempt + 1
                  /\ rpc' = "loop"
                  /\ UNCHANGED ret
    /\ UNCHANGED <<findVars, pipeVars, limVars, maxRetries, backoff, variant, rctxDone,
                   sleeps, asked, delays>>

\* ctx is cancelled or its deadline passes during the call; a goroutine parked
\* in the backoff select is woken by ctx.Done()
RetryCancel ==
    /\ rpc \in {"loop", "sleep", "call"}
    /\ ~rctxDone
    /\ rctxDone' = TRUE
    /\ rpc' = IF rpc = "sleep" THEN "ctxwoken" ELSE rpc
    /\ UNCHANGED <<findVars, pipeVars, limVars, maxRetries, backoff, variant, attempt,
                   lastErr, result, ret, calls, sleeps, asked, delays>>

RetryNext ==
    \/ \E v \in {"Execute", "ExecuteWithResult"} : Execute(v)
    \/ LoopTop
    \/ SleepTimer
    \/ SleepCancelled
    \/ Invoke
    \/ RetryCancel

RetrySpec == RetryInit /\ [][RetryNext]_vars

\* C12: with maxRetries = M the operation is invoked at most M + 1 times, and
\* the first invocation that succeeds is the last one: the method has
\* returned success (with that invocation's value), and no sleep was begun
\* after it.
C12_AtMostMPlusOneStopAtSuccess ==
    /\ maxRetries >= 0 => Len(calls) <= maxRetries + 1
    /\ \A k \in 1..Len(calls) :
          calls[k].err = "nil" =>
              /\ k = Len(calls)
              /\ rpc = "returned"
              /\ ret = [err |-> "nil", res |-> calls[k].res]
              /\ Len(sleeps) = k - 1

C12_Witness ==
    /\ rpc = "returned"
    /\ Len(calls) = 2
    /\ maxRetries = 3
    /\ calls[1].err # "nil"
    /\ calls[2].err = "nil"

\* C13: when all M + 1 invocations failed and the context was not cancelled,
\* Execute has returned the error of the last invocation, and
\* ExecuteWithResult that error with the value of the last invocation.
C13_LastErrorReturned ==
    ( /\ rpc = "returned"
      /\ ~rctxDone
      /\ maxRetries >= 0
      /\ Len(calls) = maxRetries + 1
      /\ \A k \in 1..Len(calls) : calls[k].err # "nil" )
    => /\ ret.err = calls[maxRetries + 1].err
       /\ variant = "ExecuteWithResult" => ret.res = calls[maxRetries + 1].res
       /\ variant = "Execute" => ret.res = "zero"

C13_Witness ==
    /\ rpc = "returned"
    /\ ~rctxDone
    /\ variant = "ExecuteWithResult"
    /\ maxRetries = 2
    /\ Len(calls) = 3
    /\ calls[1] = [err |-> "e1", res |-> "v1"]
    /\ calls[2] = [err |-> "e1", res |-> "v1"]
    /\ calls[3] = [err |-> "e2", res |-> "v2"]
    /\ ret = calls[3]

\* a caller woken from the sleep before attempt k by ctx.Done() has invoked
\* the operation k times
CancelledSleepCount ==
    /\ rpc = "ctxwoken" => attempt >= 1 /\ Len(calls) = attempt
    /\ rpc = "returned" /\ ret.err = "cancelled" => attempt >= 1 /\ Len(calls) = attempt
\* its next step returns the cancellation error, and a method that has
\* returned invokes nothing
CancelledSleepStep ==
    /\ rpc = "ctxwoken" =>
          rpc' = "returned" /\ ret'.err = "cancelled" /\ calls' = calls
    /\ rpc = "returned" => calls' = calls /\ rpc' = "returned"

\* C14: a context cancelled during the backoff sleep before attempt k >= 1
\* makes the method return the cancellation error, and the number of
\* invocations stays at k.
C14_CancelledSleepAborts == []CancelledSleepCount /\ [][CancelledSleepStep]_vars

C14_Witness ==
    /\ rpc = "returned"
    /\ ret.err = "cancelled"
    /\ attempt = 2
    /\ Len(calls) = 2
    /\ maxRetries = 3

SleepsByAttempt ==
    /\ \A k \in 1..Len(sleeps) :
          /\ sleeps[k] = GetDelay(backoff, k)
          /\ backoff.kind = "linear" => sleeps[k] = backoff.BaseDelay * k
    /\ rpc = "call" => Len(sleeps) = attempt /\ Len(calls) = attempt
    /\ rpc \in {"sleep", "ctxwoken"} => Len(sleeps) = attempt /\ attempt >= 1
    /\ Len(calls) >= 1 => Len(sleeps) >= Len(calls) - 1
\* the counter starts at 0 and goes up by one, after an invocation only
AttemptStep ==
    /\ attempt' # attempt =>
          /\ attempt' = attempt + 1
          /\ rpc = "call"
          /\ Len(calls') = attempt'
    /\ rpc = "idle" /\ rpc' # "idle" => attempt' = 0

\* C16: attempt takes the values 0, 1, 2, ... in order; attempt 0 invokes the
\* operation with no sleep before it, and attempt k >= 1 is preceded by
\* exactly one sleep of GetDelay(k), which is base * k for a LinearBackoff.
C16_AttemptsAndSleeps == []SleepsByAttempt /\ [][AttemptStep]_vars

C16_Witness ==
    /\ rpc = "call"
    /\ attempt = 2
    /\ backoff.kind = "linear"
    /\ backoff.BaseDelay = 2
    /\ sleeps = <<2, 4>>
    /\ Len(calls) = 2

(***************************************************************************)
(* assessRisk and calculateConfidence as functions of a Result             *)
(* (capture.go:468-549): the Result handed to them is drawn from the       *)
(* values its fields can take, and the risk stage is applied to it.        *)
(***************************************************************************)
ScoreSeverities == Severities \cup {"Info"}
ScoreStatuses == {"", "N/A", "200", "403", "500"}
ScoreSSL ==
    {NoSSL} \cup
    {analyzeCertificate(h, v) : h \in {-5, 100, 2000}, v \in {{}, {"weak-signature"}}}
ScoreInputs ==
    {[newResult(Candidate("www")) EXCEPT
         !.IP = ip, !.Status = st, !.Ports = p, !.SSL = c,
         !.Technologies = t, !.Vulnerabilities = v] :
        ip \in {""} \cup IPs, st \in ScoreStatuses, p \in PortOutcomes, c \in ScoreSSL,
        t \in {<<>>, <<"Web Server">>}, v \in SeqsUpTo(ScoreSeverities, MaxFindings)}

ScoreInit ==
    /\ FindIdle
    /\ resolver = [c \in Candidates |-> ""]
    /\ cand = Candidate("www")
    /\ stage = "risk"
    /\ partial \in ScoreInputs
    /\ failed = {}
    /\ emitted = <<>>
    /\ LimiterIdle
    /\ RetryIdle

ScoreNext == StageRisk \/ PipeEmit

ScoreSpec == ScoreInit /\ [][ScoreNext]_vars

\* the number of findings of severity sev in a list
CountSeverity(vs, sev) == Cardinality({k \in 1..Len(vs) : vs[k] = sev})
B(p) == IF p THEN 1 ELSE 0
\* the score and the level as the scoring rules state them
StatedScore(r) ==
      10 * CountSeverity(r.Vulnerabilities, "Critical")
    + 7 * CountSeverity(r.Vulnerabilities, "High")
    + 4 * CountSeverity(r.Vulnerabilities, "Medium")
    + 1 * CountSeverity(r.Vulnerabilities, "Low")
    + 8 * B(r.SSL.present /\ r.SSL.Expired)
    + 3 * B(r.SSL.present /\ r.SSL.ExpiresSoon)
    + 5 * B(r.SSL.present /\ r.SSL.Vulnerabilities # {})
    + 3 * B(Cardinality(r.Ports) > 10)
    + 2 * B(r.Status = "403")
    + 5 * B(r.Status = "500")
StatedLevel(n) ==
    IF n >= 15 THEN "high" ELSE IF n >= 8 THEN "medium" ELSE IF n >= 3 THEN "low" ELSE "info"
\* the vulnerabilities are the only findings of r
OnlyVulnerabilities(r) ==
    /\ ~(r.SSL.present /\ (r.SSL.Expired \/ r.SSL.ExpiresSoon \/ r.SSL.Vulnerabilities # {}))
    /\ Cardinality(r.Ports) <= 10
    /\ r.Status \notin {"403", "500"}

\* C17: the risk level of a Result is the level of its stated score; two High
\* findings alone give medium, and with one Critical added they give high.
C17_RiskLevelOfScore ==
    stage \in {"return", "done"} =>
        /\ partial.RiskLevel = StatedLevel(StatedScore(partial))
        /\ ( /\ OnlyVulnerabilities(partial)
             /\ BagOfSeq(partial.Vulnerabilities) = BagOfSeq(<<"High", "High">>) )
           => partial.RiskLevel = "medium"
        /\ ( /\ OnlyVulnerabilities(partial)
             /\ BagOfSeq(partial.Vulnerabilities) = BagOfSeq(<<"High", "High", "Critical">>) )
           => partial.RiskLevel = "high"

C17_Witness ==
    /\ stage = "done"
    /\ OnlyVulnerabilities(partial)
    /\ partial.Vulnerabilities = <<"High", "Critical", "High">>
    /\ partial.RiskLevel = "high"
    /\ emitted = <<partial>>

\* the Status field holds a status code
StatusObtained(r) == r.Status \in {StatusText(c) : c \in HttpCodes \ {0}}

C19_NoResponseNoStatusBonus ==
    emitted # <<>> /\ "http" \in failed =>
        /\ emitted[1].Status = ""
        /\ emitted[1].Confidence =
              50 + 20 + 10 * B(Len(emitted[1].Technologies) >= 1)
                 + 5 * B(emitted[1].SSL.present)

(***************************************************************************)
(* The scan command (cmd/scan.go runScan): the flag values go into         *)
(* finder.Config as they are, NewFinder(cfg) is called and then Find.      *)
(***************************************************************************)
\* values of --threads, --timeout and --retries, inside and outside the ranges
ScanThreads == {MinThreads - 1, MinThreads, MinThreads + 1, ValidMaxThreads + 1}
ScanTimeouts == {MinTimeout - 1, DefaultTimeout, MaxTimeout + 1}
ScanRetries == {MinRetries - 1, DefaultRetries, ValidMaxRetries + 1}

ScanInit ==
    /\ threads \in ScanThreads
    /\ timeout \in ScanTimeouts
    /\ retries \in ScanRetries
    /\ words \in SeqsUpTo(WordSet, MaxWords)
    /\ resolver \in [Candidates -> {""} \cup IPs]
    /\ run = 0
    /\ mainPc = "ready"
    /\ next = 1
    /\ pc = [i \in 1..Len(words) |-> "idle"]
    /\ res = [i \in 1..Len(words) |-> EmptyResult]
    /\ semaphore = 0
    /\ wg = 0
    /\ resultsChan = <<>>
    /\ closed = FALSE
    /\ closerPc = "none"
    /\ results = <<>>
    /\ pushed = EmptyBag
    /\ sendOnClosed = FALSE
    /\ crashed = FALSE
    /\ PipeIdle
    /\ LimiterIdle
    /\ RetryIdle

\* runScan goes from the flags to finder.Find() without a check; the steps
\* after that are those of Find
ScanSpec == ScanInit /\ [][Next]_vars

ValidConfig ==
    /\ threads \in MinThreads..ValidMaxThreads
    /\ timeout \in MinTimeout..MaxTimeout
    /\ retries \in MinRetries..ValidMaxRetries

\* C20 as claimed: with threads outside 1..1000, timeout outside 1..60 or
\* retries outside 0..10 the scan is rejected before the Scheduler starts:
\* Find is not entered and no candidate is dispatched.
C20_InvalidConfigRejected ==
    ~ValidConfig =>
        /\ mainPc = "ready"
        /\ run = 0
        /\ \A i \in Goroutines : pc[i] = "idle"

\* the order of the stages of one candidate
StageOrder ==
    {<<"dns", "http">>, <<"http", "ports">>, <<"ports", "ssl">>, <<"ssl", "tech">>,
     <<"tech", "vuln">>, <<"vuln", "risk">>, <<"risk", "return">>, <<"return", "done">>}
\* a step of the pipeline goes to the next stage, or from a failed resolution
\* straight to the return
StageStep ==
    stage' # stage =>
        \/ /\ <<stage, stage'>> \in StageOrder
           /\ "dns" \in failed' => stage = "return"
        \/ /\ stage = "dns"
           /\ stage' = "return"
           /\ resolver[cand] = ""
\* after a failed resolution no other stage has run
DnsFailureStops ==
    "dns" \in failed =>
        /\ failed = {"dns"}
        /\ stage \in {"return", "done"}
        /\ partial = EmptyResult

\* C21: the stages of one candidate run one after the other in the order DNS,
\* HTTP, ports, TLS, technologies, vulnerabilities, risk; after a failed
\* DNS resolution none of the later stages is started.
C21_StagesInOrder == []DnsFailureStops /\ [][StageStep]_vars

C21_Witness ==
    /\ stage = "done"
    /\ resolver[cand] = ""
    /\ failed = {"dns"}
    /\ emitted = <<>>

\* the caller that passes rl.mu.Lock() in this step, if there is one
Entering(c) == wpc[c] = "lock" /\ wpc'[c] # "lock"
\* the refill step as stated: k = floor(elapsed / interval)
StatedK == (now - lastTime) \div interval
StatedTokens == IF StatedK > 0 THEN Min(tokens + StatedK, rate) ELSE tokens
StatedLastRefill == IF StatedK > 0 THEN now ELSE lastTime
RefillThenGrant ==
    \A c \in Callers :
        Entering(c) =>
            /\ lastTime' = StatedLastRefill
            /\ IF StatedTokens > 0
               THEN /\ tokens' = StatedTokens - 1
                    /\ wpc'[c] = "idle"
                    /\ lastRet' = [outcome |-> "ok", blocked |-> FALSE]
               ELSE tokens' = StatedTokens

\* C22: a Wait adds k = floor(elapsed / interval) tokens, capped at rate, and
\* moves lastTime to now when k > 0, and changes neither otherwise; with a
\* token there after that, it takes exactly one and returns ok at once.
C22_RefillThenGrant == [][RefillThenGrant]_vars

C22_Witness ==
    /\ lastRet = [outcome |-> "ok", blocked |-> FALSE]
    /\ now >= 2 * interval
    /\ lastTime = now
    /\ rate >= 2
    /\ tokens = rate - 1
    /\ warm
    /\ ~rateChanged

\* the caller whose blocked Wait returns ok in this step
WokenByTimer(c) == wpc[c] = "select" /\ wpc'[c] = "idle" /\ lastRet'.outcome = "ok"
JumpStart ==
    \A c \in Callers :
        WokenByTimer(c) =>
            /\ lastRet'.blocked
            /\ tokens' = rate - 1
            /\ lastTime' = now
            /\ rate' = rate

\* C23: a blocked Wait whose waitTime elapses returns ok and leaves tokens =
\* rate - 1 and lastTime = the time of the wake-up, whatever they were; the
\* refill formula is not applied on that path.
C23_BlockedWaitJumpStarts == [][JumpStart]_vars

C23_Witness ==
    /\ lastRet = [outcome |-> "ok", blocked |-> TRUE]
    /\ rate = 3
    /\ tokens = 2
    /\ lastTime = now
    /\ now > interval
    /\ \A c \in Callers : wpc[c] = "idle"

(***************************************************************************)
(* The critical sections of the RateLimiter statement by statement: the    *)
(* lock, the load of rl.tokens after the refill, and the store of          *)
(* rl.tokens-- are separate steps of a caller.  No time passes here, so    *)
(* no refill adds tokens.                                                  *)
(***************************************************************************)
LockInit ==
    /\ FindIdle
    /\ resolver = [c \in Candidates |-> ""]
    /\ PipeIdle
    /\ RetryIdle
    /\ rate \in 1..MaxRate
    /\ interval \in 1..MaxInterval
    /\ tokens = rate
    /\ lastTime = 0
    /\ now = 0
    /\ mu = 0
    /\ wpc = [c \in Callers |-> "idle"]
    /\ wakeAt = 0
    /\ ctxDone = [c \in Callers |-> FALSE]
    /\ lastRet = NoReturn
    /\ grants = <<>>
    /\ warm = FALSE
    /\ rateChanged = FALSE
    /\ rd = [c \in Callers |-> 0]
    /\ granted = 0

\* rl.mu.Lock() that lets a caller in while another holds the lock
Lock_NoMutex(c) ==
    /\ wpc[c] = "lock"
    /\ mu' = c
    /\ wpc' = [wpc EXCEPT ![c] = "locked"]
    /\ UNCHANGED <<findVars, pipeVars, retryVars, rate, interval, tokens, lastTime, now,
                   wakeAt, ctxDone, lastRet, grants, warm, rateChanged, rd, granted>>

\* rl.mu.Lock() (145)
Lock(c) ==
    /\ wpc[c] = "lock"
    /\ mu = 0
    /\ mu' = c
    /\ wpc' = [wpc EXCEPT ![c] = "locked"]
    /\ UNCHANGED <<findVars, pipeVars, retryVars, rate, interval, tokens, lastTime, now,
                   wakeAt, ctxDone, lastRet, grants, warm, rateChanged, rd, granted>>

\* the refill and the test if rl.tokens > 0, which loads rl.tokens (148-157);
\* without a token the caller goes to the select (162-164)
LoadTokens(c) ==
    /\ wpc[c] = "locked"
    /\ tokens' = RefilledTokens
    /\ lastTime' = RefilledLast
    /\ rd' = [rd EXCEPT ![c] = RefilledTokens]
    /\ IF RefilledTokens > 0
       THEN /\ wpc' = [wpc EXCEPT ![c] = "store"]
            /\ UNCHANGED <<mu, wakeAt, lastRet, ctxDone, grants>>
       ELSE IF WaitTime > 0
       THEN /\ wpc' = [wpc EXCEPT ![c] = IF ctxDone[c] THEN "ctxwoken" ELSE "select"]
            /\ wakeAt' = now + WaitTime
            /\ UNCHANGED <<mu, lastRet, ctxDone, grants>>
       ELSE Returned(c, "ok", FALSE)
    /\ UNCHANGED <<findVars, pipeVars, retryVars, rate, interval, now, warm, rateChanged,
                   granted>>

\* rl.tokens--; return nil, and the deferred Unlock (158-159)
StoreTokens(c) ==
    /\ wpc[c] = "store"
    /\ tokens' = rd[c] - 1
    /\ granted' = granted + 1
    /\ Returned(c, "ok", FALSE)
    /\ UNCHANGED <<findVars, pipeVars, retryVars, rate, interval, lastTime, now, warm,
                   rateChanged, rd>>

\* GetRate (182-186): Lock, read rl.rate, Unlock
GetRate ==
    /\ mu = 0
    /\ lastRet' = [outcome |-> "rate", blocked |-> FALSE, value |-> rate]
    /\ UNCHANGED <<findVars, pipeVars, retryVars, rate, interval, tokens, lastTime, mu,
                   now, wpc, wakeAt, ctxDone, grants, warm, rateChanged, rd, granted>>

LockNext ==
    \/ \E c \in Callers : Call(c)
    \/ \E c \in Callers : Lock(c)
    \/ \E c \in Callers : LoadTokens(c)
    \/ \E c \in Callers : StoreTokens(c)
    \/ \E c \in Callers : WaitCancel(c)
    \/ \E c \in Callers : Cancel(c)
    \/ \E r \in 0..MaxRate : SetRate(r)
    \/ GetRate

LockSpec == LockInit /\ [][LockNext]_vars

\* the callers inside a critical section of Wait
InCritical == {c \in Callers : wpc[c] \in {"locked", "store", "select", "ctxwoken"}}

\* C24: the calls are serialized by the one lock: at most one caller is
\* inside Wait's critical section, SetRate and GetRate run only while no
\* caller is, and with no refill n granted Waits have lowered tokens by
\* exactly n, never below 0.
C24_Serialized ==
    /\ Cardinality(InCritical) <= 1
    /\ InCritical # {} => mu \in InCritical
    /\ lastRet.outcome = "rate" /\ ~rateChanged => lastRet.value = rate
    /\ mu = 0 /\ ~rateChanged => tokens = rate - granted /\ tokens >= 0

C24_Witness ==
    /\ granted = 2
    /\ tokens = rate - 2
    /\ mu = 0
    /\ ~rateChanged
    /\ \E c \in Callers : wpc[c] = "lock"

\* C25 as claimed: a caller of Wait whose own context has fired is not kept
\* waiting for the end of another caller's waitTime.
C25_OwnDeadlineHonoured ==
    \A c \in Callers :
        ~( /\ wpc[c] = "lock"
           /\ ctxDone[c]
           /\ mu \in Callers \ {c}
           /\ wpc[mu] = "select"
           /\ now < wakeAt )

\* a caller that goes to the select has changed nothing
BlocksWithoutEffect ==
    \A c \in Callers :
        Entering(c) /\ wpc'[c] \in {"select", "ctxwoken"} =>
            tokens' = tokens /\ lastTime' = lastTime
\* while it is blocked, and when it returns the cancellation error, nothing changes
BlockedKeepsBucket ==
    \A c \in Callers :
        ( /\ wpc[c] \in {"select", "ctxwoken"}
          /\ ~(wpc'[c] = "idle" /\ lastRet'.outcome = "ok") )
        => tokens' = tokens /\ lastTime' = lastTime

\* C26: a Wait that returns the cancellation error leaves tokens and lastTime
\* as they were when the call entered: it took no token and did not move the
\* refill window.
C26_CancelledWaitNoEffect == [][BlocksWithoutEffect /\ BlockedKeepsBucket]_vars

C26_Witness ==
    /\ lastRet = [outcome |-> "cancelled", blocked |-> TRUE]
    /\ rate >= 1
    /\ tokens = 0
    /\ lastTime < now
    /\ mu = 0

\* C27 as claimed: the Retryer returns success only after an invocation of
\* the operation that returned success, whatever MaxRetries is.
C27_SuccessNeedsInvocation ==
    rpc = "returned" /\ ret.err = "nil" =>
        \E k \in 1..Len(calls) : calls[k].err = "nil"

\* C28: the output queue never holds more than its capacity, the number of
\* words, and a goroutine that has a Result to push finds room for it: no
\* push waits for the collector.
C28_PushNeverBlocks ==
    /\ Len(resultsChan) <= Len(words)
    /\ \A i \in Goroutines :
          pc[i] = "emit" /\ emits(res[i]) /\ ~closed => Len(resultsChan) < Capacity

C28_Witness ==
    /\ Len(words) = 2
    /\ threads = 1
    /\ Len(resultsChan) = 2
    /\ mainPc = "loop"
    /\ results = <<>>
    /\ \E i \in Goroutines : pc[i] = "done"

\* C29 as claimed: no Result of the pipeline has both certificate flags
\* Expired and ExpiresSoon set, so the expiry adds 0, 3 or 8 to the risk
\* score and never 11.
C29_ExpiryFlagsExclusive ==
    emitted # <<>> =>
        /\ ~(emitted[1].SSL.Expired /\ emitted[1].SSL.ExpiresSoon)
        /\ 8 * B(emitted[1].SSL.Expired) + 3 * B(emitted[1].SSL.ExpiresSoon) \in {0, 3, 8}

\* info < low < medium < high
LevelRank(l) ==
    CASE l = "info" -> 0 [] l = "low" -> 1 [] l = "medium" -> 2 [] l = "high" -> 3
\* r with one more finding, one more certificate flag or more open ports
Increments(r) ==
    {[r EXCEPT !.Vulnerabilities = Append(@, sev)] : sev \in ScoreSeverities}
    \cup {[r EXCEPT !.Ports = p] : p \in {q \in PortOutcomes : r.Ports \subseteq q}}
    \cup (IF r.SSL.present
          THEN {[r EXCEPT !.SSL.Expired = TRUE], [r EXCEPT !.SSL.ExpiresSoon = TRUE],
                [r EXCEPT !.SSL.Vulnerabilities = @ \cup {"weak-signature"}]}
          ELSE {})
\* r with other values in the fields the scoring rules do not name
SameFindings(r) ==
    {[r EXCEPT !.IP = ip, !.Technologies = t, !.Server = sv, !.RiskLevel = "", !.Confidence = 0] :
        ip \in {""} \cup IPs, t \in {<<>>, <<"Web Server">>}, sv \in {"", "nginx"}}

\* C30: one more finding, certificate flag or open port never lowers the
\* risk level, and Results with the same findings, flags, ports and status
\* get the same level.
C30_RiskMonotone ==
    stage \in {"return", "done"} =>
        /\ \A r2 \in Increments(partial) :
              LevelRank(assessRisk(r2)) >= LevelRank(partial.RiskLevel)
        /\ \A r2 \in SameFindings(partial) : assessRisk(r2) = partial.RiskLevel

C30_Witness ==
    /\ stage = "done"
    /\ partial.RiskLevel = "high"
    /\ partial.SSL.present
    /\ partial.SSL.Expired
    /\ Len(partial.Vulnerabilities) = 2
    /\ VulnScore(partial.Vulnerabilities) = 20
    /\ \E r2 \in Increments(partial) : r2 # partial /\ assessRisk(r2) = "high"

====
